---- MODULE Spec2Model ----
(***************************************************************************)
(* A model of src/src/reading_functions.py: the open-bigram extractor      *)
(* (string_to_ngrams_and_locations), the lexical overlap matrix            *)
(* (build_word_inhibition_matrix), the slot-matching order                 *)
(* (define_slot_matching_order), the recognition threshold, the sampling   *)
(* functions, the attention field, the word edges and the mid-word         *)
(* position; and of get_first_pass_fixations of src/src/evaluation.py.     *)
(*                                                                         *)
(* Conventions                                                             *)
(*  - a Python string is a sequence of one-character strings; Python's     *)
(*    0-based s[i] is Ch(s, i);                                            *)
(*  - the edge weights 0.5, 1.0 and 2.0 are held doubled, as 1, 2 and 4;   *)
(*  - pm.bigram_gap = None is the gap NoGap;                               *)
(*  - pm.word_length_similarity_constant is the rational                   *)
(*    len_sim_constant[1] / len_sim_constant[2].                           *)
(***************************************************************************)
EXTENDS Integers, Sequences, FiniteSets, TLC

VARIABLES
    pc,                      \* position of the running call
    \* string_to_ngrams_and_locations
    stimulus,                \* the padded stimulus, "_" + stimulus + "_"
    stimulus_space_positions,\* space positions of the stimulus as passed in
    gap,                     \* pm.bigram_gap
    is_suffix,
    first,                   \* loop variable of the outer loop
    all_bigrams,
    bigrams_to_locations,
    \* build_word_inhibition_matrix
    lexicon,
    lexicon_word_bigrams,    \* word -> lexicon_word_bigrams[word][0]
    min_overlap,             \* pm.min_overlap
    len_sim_constant,        \* pm.word_length_similarity_constant
    word_1_index,
    word_2_index,
    word_overlap_matrix,
    \* define_slot_matching_order
    n_words_in_stim,
    fixated_position_stimulus,
    p_index,                 \* index of the next element of positions
    order_match_check,
    \* get_threshold
    word_freq_dict,
    max_frequency,
    freq_p,
    max_threshold,
    word_thresholds,         \* word -> the threshold get_threshold returned
    \* calc_saccade_error, sample_from_norm_distribution
    rng_state,               \* state of the global generator np.random
    calls,                   \* the calls made so far, with their results
    \* calc_acuity, get_attention_skewed
    call_args,
    call_result,
    \* find_word_edges
    edges_stimulus,          \* the stimulus passed to find_word_edges
    match_pos,               \* where p.finditer resumes its search
    word_edges,
    \* get_first_pass_fixations (evaluation.py)
    text_hist,               \* the fixations of one simulation and text, in time order
    groups_done,             \* the word_id groups already iterated
    fix_pos,                 \* rows of the current fix_hist already iterated
    first_pass_indices

ngVars == <<stimulus, stimulus_space_positions, gap, is_suffix, first,
            all_bigrams, bigrams_to_locations>>
mxVars == <<lexicon, lexicon_word_bigrams, min_overlap, len_sim_constant,
            word_1_index, word_2_index, word_overlap_matrix>>
slVars == <<n_words_in_stim, fixated_position_stimulus, p_index,
            order_match_check>>
thVars == <<word_freq_dict, max_frequency, freq_p, max_threshold,
            word_thresholds>>
smVars == <<rng_state, calls>>
fnVars == <<call_args, call_result>>
weVars == <<edges_stimulus, match_pos, word_edges>>
fpVars == <<text_hist, groups_done, fix_pos, first_pass_indices>>
otherVars == <<thVars, smVars, fnVars, weVars, fpVars>>
vars == <<pc, ngVars, mxVars, slVars, otherVars>>

----------------------------------------------------------------------------
(* Bounds of the model *)

MaxStimLen == 4      \* longest enumerated stimulus
MaxGap == 3          \* largest bounded gap
MaxLexicon == 3      \* largest lexicon
MaxMinOverlap == 2   \* largest pm.min_overlap
MaxSlots == 8        \* most word slots in a stimulus

----------------------------------------------------------------------------
(* Helpers *)

Range(s) == {s[i] : i \in DOMAIN s}

Ch(s, i) == s[i + 1]

Min(a, b) == IF a < b THEN a ELSE b

Max(a, b) == IF a > b THEN a ELSE b

Abs(a) == IF a < 0 THEN -a ELSE a

SeqsUpTo(S, n) == UNION {[1..k -> S] : k \in 0..n}

NoGap == -1

SPACE == " "

SENTINEL == "_"

----------------------------------------------------------------------------
(* get_stimulus_space_positions *)

get_stimulus_space_positions(stim) ==
    {letter_position \in 0..(Len(stim) - 1) : Ch(stim, letter_position) = SPACE}

(* get_ngram_edge_position_weight; weights doubled (0.5, 1., 2. are 1, 2, 4). *)
(* ngramLocations is a pair for a two-letter unit and a position otherwise.   *)

default_weight == 1

max_weight == 4

get_ngram_edge_position_weight_accumulated(ngram, ngramLocations, stimulus_space_locations) ==
    IF Len(ngram) = 2
      THEN LET f == ngramLocations[1]
               s == ngramLocations[2]
           IN  default_weight
                 + (IF (f - 1) \in stimulus_space_locations THEN 2 ELSE 0)
                 + (IF (s + 1) \in stimulus_space_locations THEN 2 ELSE 0)
      ELSE LET letter_location == ngramLocations
           IN  default_weight
                 + (IF (letter_location - 1) \in stimulus_space_locations THEN 2 ELSE 0)
                 + (IF (letter_location + 1) \in stimulus_space_locations THEN 2 ELSE 0)

get_ngram_edge_position_weight(ngram, ngramLocations, stimulus_space_locations) ==
    IF Len(ngram) = 2
      THEN LET f == ngramLocations[1]
               s == ngramLocations[2]
           IN  IF (f - 1) \in stimulus_space_locations /\ (s + 1) \in stimulus_space_locations
                 THEN max_weight
               ELSE IF (f + 1) \in stimulus_space_locations /\ (s - 1) \in stimulus_space_locations
                 THEN max_weight
               ELSE IF (f - 1) \in stimulus_space_locations \/ (s + 1) \in stimulus_space_locations
                 THEN 2
               ELSE IF (f + 1) \in stimulus_space_locations \/ (s - 1) \in stimulus_space_locations
                 THEN 2
               ELSE default_weight
      ELSE LET letter_location == ngramLocations
           IN  IF (letter_location - 1) \in stimulus_space_locations
                    /\ (letter_location + 1) \in stimulus_space_locations
                 THEN max_weight
               ELSE IF (letter_location - 1) \in stimulus_space_locations
                    \/ (letter_location + 1) \in stimulus_space_locations
                 THEN 2
               ELSE default_weight

(* the padding of line 48 *)
Pad(stim) == <<SENTINEL>> \o stim \o <<SENTINEL>>

(* the bigram rejected by `if bigram != '  '` *)
RejectedBigram == <<SPACE, SPACE>>

(* the bookkeeping without the test `if not bigram in all_bigrams` *)
RecordBigram_always_appended(st, bigram, f, s, spaces) ==
    LET w   == get_ngram_edge_position_weight(bigram, <<f, s>>, spaces)
        occ == <<f, s, w>>
    IN  [all_bigrams |-> Append(st.all_bigrams, bigram),
         bigrams_to_locations |->
             IF bigram \in DOMAIN st.bigrams_to_locations
               THEN [st.bigrams_to_locations EXCEPT ![bigram] = Append(@, occ)]
               ELSE st.bigrams_to_locations @@ (bigram :> <<occ>>)]

(* the bookkeeping repeated at lines 71-78, 89-96, 105-112 and 123-130:   *)
(* st is [all_bigrams, bigrams_to_locations]                              *)
RecordBigram(st, bigram, f, s, spaces) ==
    LET w   == get_ngram_edge_position_weight(bigram, <<f, s>>, spaces)
        occ == <<f, s, w>>
    IN  [all_bigrams |->
             IF bigram \in Range(st.all_bigrams)
               THEN st.all_bigrams
               ELSE Append(st.all_bigrams, bigram),
         bigrams_to_locations |->
             IF bigram \in DOMAIN st.bigrams_to_locations
               THEN [st.bigrams_to_locations EXCEPT ![bigram] = Append(@, occ)]
               ELSE st.bigrams_to_locations @@ (bigram :> <<occ>>)]

(* the inner loop `for second in range(first + 1, limit)` with its break   *)
RECURSIVE ScanSeconds(_, _, _, _, _, _)
ScanSeconds(stim, spaces, f, s, limit, st) ==
    IF s >= limit THEN st
    ELSE IF Ch(stim, s) = SPACE THEN st
    ELSE LET bigram == <<Ch(stim, f), Ch(stim, s)>>
         IN  ScanSeconds(stim, spaces, f, s + 1, limit,
                 IF bigram # RejectedBigram
                   THEN RecordBigram(st, bigram, f, s, spaces)
                   ELSE st)

(* upper end of the inner range: line 66 (no gap) and line 116 (gap) *)
ScanLimit(stim, g, f) ==
    IF g = NoGap THEN Len(stim) ELSE Min(f + 1 + g + 1, Len(stim))

(* the branches of one iteration of the outer loop *)
IsSkipSpace(stim, g, f) == g = NoGap /\ Ch(stim, f) = SPACE

IsSuffixSkip(stim, g, suffix, f) ==
    g # NoGap /\ Ch(stim, f) = SPACE /\ f = 1 /\ suffix

IsInjectStart(stim, g, suffix, f) ==
    g # NoGap /\ Ch(stim, f) = SPACE /\ f = 1 /\ ~suffix

IsInjectEnd(stim, g, f) ==
    g # NoGap /\ Ch(stim, f) = SPACE /\ f # 1 /\ f = Len(stim) - 2

InjectStart(stim, spaces, f, st) ==
    LET second_alt == 2
        bigram == <<SENTINEL, Ch(stim, second_alt)>>
    IN  RecordBigram(st, bigram, f, second_alt, spaces)

InjectEnd(stim, spaces, st) ==
    LET first_alt == Len(stim) + (-3)
        second_alt == Len(stim) + (-2)
        bigram == <<Ch(stim, first_alt), SENTINEL>>
    IN  RecordBigram(st, bigram, first_alt, second_alt, spaces)

Scan(stim, spaces, g, f, st) ==
    ScanSeconds(stim, spaces, f, f + 1, ScanLimit(stim, g, f), st)

OuterIteration(stim, spaces, g, suffix, f, st) ==
    IF IsSkipSpace(stim, g, f) \/ IsSuffixSkip(stim, g, suffix, f) THEN st
    ELSE IF IsInjectStart(stim, g, suffix, f) THEN InjectStart(stim, spaces, f, st)
    ELSE IF IsInjectEnd(stim, g, f) THEN InjectEnd(stim, spaces, st)
    ELSE Scan(stim, spaces, g, f, st)

EmptyMap == [b \in {} |-> <<>>]

EmptyNgrams == [all_bigrams |-> <<>>, bigrams_to_locations |-> EmptyMap]

RECURSIVE OuterLoop(_, _, _, _, _, _)
OuterLoop(stim, spaces, g, suffix, f, st) ==
    IF f >= Len(stim) - 1 THEN st
    ELSE OuterLoop(stim, spaces, g, suffix, f + 1,
                   OuterIteration(stim, spaces, g, suffix, f, st))

(* the whole function, as the overlap engine's callers use it *)
string_to_ngrams_and_locations(stim, g, suffix) ==
    OuterLoop(Pad(stim), get_stimulus_space_positions(stim), g, suffix, 0,
              EmptyNgrams)

----------------------------------------------------------------------------
(* is_similar_word_length: abs(len1-len2) < len_sim_constant * max(len1, len2), *)
(* the constant being c[1] / c[2]                                               *)

(* the gate with <= in place of < *)
is_similar_word_length_inclusive(len1, len2, c) ==
    Abs(len1 - len2) * c[2] <= c[1] * Max(len1, len2)

is_similar_word_length(len1, len2, c) ==
    Abs(len1 - len2) * c[2] < c[1] * Max(len1, len2)

(* the overlap count without the shared letters *)
n_total_overlap_bigrams_only(word1, word2, word_bigrams) ==
    Cardinality(Range(word_bigrams[word1]) \cap Range(word_bigrams[word2]))

(* the overlap count with the letters joined (|) instead of intersected (&) *)
n_total_overlap_letter_union(word1, word2, word_bigrams) ==
    Cardinality(Range(word_bigrams[word1]) \cap Range(word_bigrams[word2]))
      + Cardinality(Range(word1) \cup Range(word2))

(* lines 198-202 of build_word_inhibition_matrix *)
n_total_overlap(word1, word2, word_bigrams) ==
    LET n_bigram_overlap ==
            Cardinality(Range(word_bigrams[word1]) \cap Range(word_bigrams[word2]))
        n_monogram_overlap ==
            Cardinality(Range(word1) \cap Range(word2))
    IN  n_bigram_overlap + n_monogram_overlap

(* the store without its mirror assignment *)
StoreCells_unmirrored(matrix, i, j, value) ==
    [matrix EXCEPT ![<<i, j>>] = value]

(* the paired assignments of lines 205-206 and 210-211 *)
StoreCells(matrix, i, j, value) ==
    [matrix EXCEPT ![<<i, j>>] = value, ![<<j, i>>] = value]

(* np.zeros((lexicon_size, lexicon_size), dtype=int) *)
Zeros(n) == [cell \in (0..(n - 1)) \X (0..(n - 1)) |-> 0]

----------------------------------------------------------------------------
(* define_slot_matching_order *)

(* the offsets with the left neighbour ahead of the right one *)
positions_left_first == <<-1, 1, -2, 2, -3, 3>>

positions == <<1, -1, 2, -2, 3, -3>>

(* the range test without its lower bound *)
InStimulus_no_lower_bound(next_pos, n_words) == next_pos < n_words

InStimulus(next_pos, n_words) == next_pos >= 0 /\ next_pos < n_words

----------------------------------------------------------------------------
(* Inputs *)

Alphabet == {"a", "b", SPACE}

CatDog == <<"c", "a", "t", SPACE, "d", "o", "g">>

Stimuli == SeqsUpTo(Alphabet, MaxStimLen) \cup {CatDog}

Gaps == {NoGap} \cup (0..MaxGap)

WordPool == {<<"c", "a", "t">>, <<"c", "o", "t">>, <<"d", "o", "g">>,
             <<"a", "t">>, <<"c", "a", "t", "s">>}

Lexicons ==
    {lex \in SeqsUpTo(WordPool, MaxLexicon) :
        /\ Len(lex) >= 1
        /\ \A i, j \in DOMAIN lex : i # j => lex[i] # lex[j]}

LenSimConstants == {<<15, 100>>, <<1, 2>>}

LexiconGaps == {NoGap, 0, MaxGap}

(* the precomputed table: every word of `present` with the extractor's bigrams *)
BigramTable(present, g) ==
    [w \in present |-> string_to_ngrams_and_locations(w, g, FALSE).all_bigrams]

----------------------------------------------------------------------------
(* Initial states: one call of one of the three functions *)

NgIdle ==
    /\ stimulus = <<>>
    /\ stimulus_space_positions = {}
    /\ gap = NoGap
    /\ is_suffix = FALSE
    /\ first = 0
    /\ all_bigrams = <<>>
    /\ bigrams_to_locations = EmptyMap

MxIdle ==
    /\ lexicon = <<>>
    /\ lexicon_word_bigrams = EmptyMap
    /\ min_overlap = 0
    /\ len_sim_constant = <<1, 1>>
    /\ word_1_index = 0
    /\ word_2_index = 0
    /\ word_overlap_matrix = Zeros(0)

SlIdle ==
    /\ n_words_in_stim = 0
    /\ fixated_position_stimulus = 0
    /\ p_index = 1
    /\ order_match_check = <<>>

ThIdle ==
    /\ word_freq_dict = EmptyMap
    /\ max_frequency = <<1, 1>>
    /\ freq_p = <<1, 1>>
    /\ max_threshold = <<1, 1>>
    /\ word_thresholds = EmptyMap

SmIdle ==
    /\ rng_state = 0
    /\ calls = <<>>

FnIdle ==
    /\ call_args = <<>>
    /\ call_result = <<>>

WeIdle ==
    /\ edges_stimulus = <<>>
    /\ match_pos = 0
    /\ word_edges = EmptyMap

FpIdle ==
    /\ text_hist = <<>>
    /\ groups_done = {}
    /\ fix_pos = 0
    /\ first_pass_indices = <<>>

InitNgram ==
    /\ pc = "ng_loop"
    /\ \E stim \in Stimuli :
          /\ stimulus = Pad(stim)
          /\ stimulus_space_positions = get_stimulus_space_positions(stim)
    /\ gap \in Gaps
    /\ is_suffix \in BOOLEAN
    /\ first = 0
    /\ all_bigrams = <<>>
    /\ bigrams_to_locations = EmptyMap
    /\ MxIdle
    /\ SlIdle
    /\ ThIdle /\ SmIdle /\ FnIdle /\ WeIdle /\ FpIdle

InitMatrix ==
    /\ pc = "mx_loop"
    /\ lexicon \in Lexicons
    /\ \E g \in LexiconGaps :
          \E present \in {Range(lexicon)} \cup {Range(lexicon) \ {w} : w \in Range(lexicon)} :
              lexicon_word_bigrams = BigramTable(present, g)
    /\ min_overlap \in 0..MaxMinOverlap
    /\ len_sim_constant \in LenSimConstants
    /\ word_1_index = 0
    /\ word_2_index = 1
    /\ word_overlap_matrix = Zeros(Len(lexicon))
    /\ NgIdle
    /\ SlIdle
    /\ ThIdle /\ SmIdle /\ FnIdle /\ WeIdle /\ FpIdle

InitSlot ==
    /\ pc = "sl_loop"
    /\ n_words_in_stim \in 1..MaxSlots
    /\ fixated_position_stimulus \in 0..(n_words_in_stim - 1)
    /\ p_index = 1
    /\ order_match_check = <<fixated_position_stimulus>>
    /\ NgIdle
    /\ MxIdle
    /\ ThIdle /\ SmIdle /\ FnIdle /\ WeIdle /\ FpIdle

----------------------------------------------------------------------------
(* string_to_ngrams_and_locations: one action per branch of the outer loop *)

NgInLoop == pc = "ng_loop" /\ first < Len(stimulus) - 1

NgState == [all_bigrams |-> all_bigrams,
            bigrams_to_locations |-> bigrams_to_locations]

NgAdvance(st) ==
    /\ all_bigrams' = st.all_bigrams
    /\ bigrams_to_locations' = st.bigrams_to_locations
    /\ first' = first + 1
    /\ UNCHANGED <<pc, stimulus, stimulus_space_positions, gap, is_suffix,
                   mxVars, slVars, otherVars>>

(* lines 64-65: continue on a space, no gap limit *)
NgSkipSpace ==
    /\ NgInLoop
    /\ IsSkipSpace(stimulus, gap, first)
    /\ NgAdvance(NgState)

(* lines 66-78 *)
NgUnboundedScan ==
    /\ NgInLoop
    /\ gap = NoGap
    /\ ~IsSkipSpace(stimulus, gap, first)
    /\ NgAdvance(Scan(stimulus, stimulus_space_positions, gap, first, NgState))

(* lines 83-86 *)
NgSuffixSkip ==
    /\ NgInLoop
    /\ IsSuffixSkip(stimulus, gap, is_suffix, first)
    /\ NgAdvance(NgState)

(* lines 83-97 *)
NgInjectStart ==
    /\ NgInLoop
    /\ IsInjectStart(stimulus, gap, is_suffix, first)
    /\ NgAdvance(InjectStart(stimulus, stimulus_space_positions, first, NgState))

(* lines 98-113 *)
NgInjectEnd ==
    /\ NgInLoop
    /\ IsInjectEnd(stimulus, gap, first)
    /\ NgAdvance(InjectEnd(stimulus, stimulus_space_positions, NgState))

(* lines 116-130 *)
NgBoundedScan ==
    /\ NgInLoop
    /\ gap # NoGap
    /\ ~IsSuffixSkip(stimulus, gap, is_suffix, first)
    /\ ~IsInjectStart(stimulus, gap, is_suffix, first)
    /\ ~IsInjectEnd(stimulus, gap, first)
    /\ NgAdvance(Scan(stimulus, stimulus_space_positions, gap, first, NgState))

(* line 149 *)
NgReturn ==
    /\ pc = "ng_loop"
    /\ first >= Len(stimulus) - 1
    /\ pc' = "ng_done"
    /\ UNCHANGED <<ngVars, mxVars, slVars, otherVars>>

NextNgram ==
    \/ NgSkipSpace
    \/ NgUnboundedScan
    \/ NgSuffixSkip
    \/ NgInjectStart
    \/ NgInjectEnd
    \/ NgBoundedScan
    \/ NgReturn

----------------------------------------------------------------------------
(* build_word_inhibition_matrix: one action per iteration of the pair loop. *)
(* The two pickle dumps of lines 213-222 write files and leave the matrix   *)
(* untouched.                                                               *)

MxInPair ==
    /\ pc = "mx_loop"
    /\ word_1_index < Len(lexicon)
    /\ word_2_index < Len(lexicon)

word1 == Ch(lexicon, word_1_index)

word2 == Ch(lexicon, word_2_index)

MxSimilar == is_similar_word_length(Len(word1), Len(word2), len_sim_constant)

MxHasBigrams ==
    /\ word1 \in DOMAIN lexicon_word_bigrams
    /\ word2 \in DOMAIN lexicon_word_bigrams

MxNextPair ==
    /\ word_2_index' = word_2_index + 1
    /\ UNCHANGED <<pc, lexicon, lexicon_word_bigrams, min_overlap,
                   len_sim_constant, word_1_index, ngVars, slVars, otherVars>>

(* lines 195-196 *)
MxGateSkip ==
    /\ MxInPair
    /\ ~MxSimilar
    /\ UNCHANGED word_overlap_matrix
    /\ MxNextPair

(* line 198: the lookup raises KeyError *)
MxKeyError ==
    /\ MxInPair
    /\ MxSimilar
    /\ ~MxHasBigrams
    /\ pc' = "mx_error"
    /\ UNCHANGED <<mxVars, ngVars, slVars, otherVars>>

(* lines 204-206 *)
MxStoreOverlap ==
    /\ MxInPair
    /\ MxSimilar
    /\ MxHasBigrams
    /\ n_total_overlap(word1, word2, lexicon_word_bigrams) > min_overlap
    /\ word_overlap_matrix' =
           StoreCells(word_overlap_matrix, word_1_index, word_2_index,
                      n_total_overlap(word1, word2, lexicon_word_bigrams) - min_overlap)
    /\ MxNextPair

(* lines 209-211 *)
MxStoreZero ==
    /\ MxInPair
    /\ MxSimilar
    /\ MxHasBigrams
    /\ ~(n_total_overlap(word1, word2, lexicon_word_bigrams) > min_overlap)
    /\ word_overlap_matrix' =
           StoreCells(word_overlap_matrix, word_1_index, word_2_index, 0)
    /\ MxNextPair

(* lines 192-193: the inner range is exhausted, the outer loop advances *)
MxNextRow ==
    /\ pc = "mx_loop"
    /\ word_1_index < Len(lexicon)
    /\ word_2_index >= Len(lexicon)
    /\ word_1_index' = word_1_index + 1
    /\ word_2_index' = word_1_index + 2
    /\ UNCHANGED <<pc, lexicon, lexicon_word_bigrams, min_overlap,
                   len_sim_constant, word_overlap_matrix, ngVars, slVars, otherVars>>

(* line 224 *)
MxReturn ==
    /\ pc = "mx_loop"
    /\ word_1_index >= Len(lexicon)
    /\ pc' = "mx_done"
    /\ UNCHANGED <<mxVars, ngVars, slVars, otherVars>>

NextMatrix ==
    \/ MxGateSkip
    \/ MxKeyError
    \/ MxStoreOverlap
    \/ MxStoreZero
    \/ MxNextRow
    \/ MxReturn

----------------------------------------------------------------------------
(* define_slot_matching_order: one action per iteration of `for p in positions` *)

SlInLoop == pc = "sl_loop" /\ p_index <= Len(positions)

next_pos == fixated_position_stimulus + positions[p_index]

(* lines 307-309 *)
SlAppend ==
    /\ SlInLoop
    /\ InStimulus(next_pos, n_words_in_stim)
    /\ order_match_check' = Append(order_match_check, next_pos)
    /\ p_index' = p_index + 1
    /\ UNCHANGED <<pc, n_words_in_stim, fixated_position_stimulus, ngVars, mxVars, otherVars>>

(* line 308, condition false *)
SlSkip ==
    /\ SlInLoop
    /\ ~InStimulus(next_pos, n_words_in_stim)
    /\ p_index' = p_index + 1
    /\ UNCHANGED <<pc, n_words_in_stim, fixated_position_stimulus,
                   order_match_check, ngVars, mxVars, otherVars>>

(* line 311 *)
SlReturn ==
    /\ pc = "sl_loop"
    /\ p_index > Len(positions)
    /\ pc' = "sl_done"
    /\ UNCHANGED <<slVars, ngVars, mxVars, otherVars>>

NextSlot ==
    \/ SlAppend
    \/ SlSkip
    \/ SlReturn

----------------------------------------------------------------------------

(* Exact rational arithmetic for the float expressions: a number is a pair *)
(* <<numerator, denominator>> in lowest terms with a positive denominator. *)

RECURSIVE GCD(_, _)
GCD(a, b) == IF b = 0 THEN a ELSE GCD(b, a % b)

Rat(n, d) ==
    LET g == GCD(Abs(n), Abs(d))
        sgn == IF d < 0 THEN -1 ELSE 1
    IN  <<sgn * (n \div g), sgn * (d \div g)>>

RAdd(a, b) == Rat(a[1] * b[2] + b[1] * a[2], a[2] * b[2])

RSub(a, b) == Rat(a[1] * b[2] - b[1] * a[2], a[2] * b[2])

(* cancels across the factors before multiplying *)
RMul(a, b) ==
    LET g1 == GCD(Abs(a[1]), Abs(b[2]))
        g2 == GCD(Abs(b[1]), Abs(a[2]))
        h1 == IF g1 = 0 THEN 1 ELSE g1
        h2 == IF g2 = 0 THEN 1 ELSE g2
    IN  Rat((a[1] \div h1) * (b[1] \div h2), (a[2] \div h2) * (b[2] \div h1))

RDiv(a, b) == RMul(a, Rat(b[2], b[1]))

----------------------------------------------------------------------------
(* get_threshold *)

(* the threshold with the frequency added instead of subtracted *)
get_threshold_added(word, freq_dict, max_freq, p, max_thresh) ==
    IF word \in DOMAIN freq_dict
      THEN RDiv(RMul(max_thresh, RAdd(RDiv(max_freq, p), freq_dict[word])),
                RDiv(max_freq, p))
      ELSE max_thresh

(* the threshold without the final division by max_frequency/freq_p *)
get_threshold_unscaled(word, freq_dict, max_freq, p, max_thresh) ==
    IF word \in DOMAIN freq_dict
      THEN RMul(max_thresh, RSub(RDiv(max_freq, p), freq_dict[word]))
      ELSE max_thresh

(* lines 160-167; the KeyError of the lookup leaves max_threshold *)
get_threshold(word, freq_dict, max_freq, p, max_thresh) ==
    IF word \in DOMAIN freq_dict
      THEN RDiv(RMul(max_thresh, RSub(RDiv(max_freq, p), freq_dict[word])),
                RDiv(max_freq, p))
      ELSE max_thresh

MaxFrequency == 3    \* largest word frequency and largest max_frequency

ThWords == {"w1", "w2", "w3"}

FreqPs == {<<2, 5>>, <<1, 1>>}

MaxThresholds == {<<1, 1>>, <<3, 10>>}

FreqDicts ==
    UNION {[known -> {<<f, 1>> : f \in 0..MaxFrequency}] : known \in SUBSET ThWords}

InitThreshold ==
    /\ pc = "th_calls"
    /\ word_freq_dict \in FreqDicts
    /\ max_frequency \in {<<m, 1>> : m \in 1..MaxFrequency}
    /\ freq_p \in FreqPs
    /\ max_threshold \in MaxThresholds
    /\ word_thresholds = EmptyMap
    /\ NgIdle /\ MxIdle /\ SlIdle /\ FpIdle
    /\ SmIdle /\ FnIdle /\ WeIdle

ThCall(word) ==
    /\ pc = "th_calls"
    /\ word \notin DOMAIN word_thresholds
    /\ word_thresholds' = word_thresholds @@
           (word :> get_threshold(word, word_freq_dict, max_frequency, freq_p,
                                  max_threshold))
    /\ UNCHANGED <<pc, word_freq_dict, max_frequency, freq_p, max_threshold,
                   ngVars, mxVars, slVars, fpVars, smVars, fnVars, weVars>>

(* lines 162-163: the word has a frequency *)
ThKnownWord ==
    \E word \in ThWords : word \in DOMAIN word_freq_dict /\ ThCall(word)

(* lines 164-165: KeyError, pass *)
ThUnknownWord ==
    \E word \in ThWords : word \notin DOMAIN word_freq_dict /\ ThCall(word)

NextThreshold ==
    \/ ThKnownWord
    \/ ThUnknownWord

SpecThreshold == InitThreshold /\ [][NextThreshold]_vars

----------------------------------------------------------------------------

(* calc_saccade_error and sample_from_norm_distribution.                   *)
(* np.random is one process-wide generator: a draw is a function of its    *)
(* state and advances it.  Sampled values are held doubled, so that a      *)
(* standard normal draw is one of -3/2, -1/2, 0, 1/2, 3/2.                 *)

MaxSeed == 4         \* the generator starts in one of the states 0..MaxSeed
MaxCalls == 2        \* most calls in one run

StandardNormalDoubled == <<0, 1, -3, 3, -1>>

standard_normal(state) ==
    StandardNormalDoubled[(state % Len(StandardNormalDoubled)) + 1]

(* np.random.normal(loc, scale, 1): the doubled value and the next state *)
random_normal(loc, scale, state) ==
    [value |-> 2 * loc + scale * standard_normal(state), rng |-> state + 1]

(* np.round of a doubled value: to the nearest integer, a half to even *)
np_round(doubled) ==
    LET floor == doubled \div 2
    IN  IF doubled % 2 = 0 THEN floor
        ELSE IF floor % 2 = 0 THEN floor
        ELSE floor + 1

(* calc_saccade_error that returns the sample whatever the flag says *)
calc_saccade_error_flag_ignored(a, state) ==
    LET saccade_error == (a.optimal_distance - Abs(a.saccade_distance)) * a.saccErr_scaler
        saccade_error_sigma ==
            a.saccErr_sigma + (Abs(a.saccade_distance) * a.saccErr_sigma_scaler)
    IN  random_normal(saccade_error, saccade_error_sigma, state)

(* lines 460-469; the sample of line 465 is drawn before the flag is read *)
calc_saccade_error(a, state) ==
    LET saccade_error == (a.optimal_distance - Abs(a.saccade_distance)) * a.saccErr_scaler
        saccade_error_sigma ==
            a.saccErr_sigma + (Abs(a.saccade_distance) * a.saccErr_sigma_scaler)
        saccade_error_norm == random_normal(saccade_error, saccade_error_sigma, state)
    IN  IF a.use_saccade_error
          THEN saccade_error_norm
          ELSE [value |-> 0, rng |-> saccade_error_norm.rng]

(* lines 313-318; the value is an integer, not doubled *)
sample_from_norm_distribution(a, state) ==
    LET draw == IF a.recognized
                  THEN random_normal(a.mu - a.distribution_param, a.sigma, state)
                  ELSE random_normal(a.mu, a.sigma, state)
    IN  [value |-> np_round(draw.value), rng |-> draw.rng]

SaccadeArgs ==
    [saccade_distance : {-2, 3}, optimal_distance : {4}, saccErr_scaler : {1},
     saccErr_sigma : {0, 1}, saccErr_sigma_scaler : {0, 1},
     use_saccade_error : BOOLEAN]

SampleArgs ==
    [mu : {10}, sigma : {1, 2}, distribution_param : {3}, recognized : BOOLEAN]

InitSampling ==
    /\ pc = "sm_calls"
    /\ rng_state \in 0..MaxSeed
    /\ calls = <<>>
    /\ NgIdle /\ MxIdle /\ SlIdle /\ FpIdle
    /\ ThIdle /\ FnIdle /\ WeIdle

SmRecord(fn, a, out) ==
    /\ pc = "sm_calls"
    /\ Len(calls) < MaxCalls
    /\ calls' = Append(calls, [fn |-> fn, args |-> a, result |-> out.value,
                               rng_before |-> rng_state])
    /\ rng_state' = out.rng
    /\ UNCHANGED <<pc, ngVars, mxVars, slVars, fpVars, thVars, fnVars, weVars>>

(* lines 466-467 *)
SmSaccadeErrorEnabled ==
    \E a \in SaccadeArgs :
        /\ a.use_saccade_error
        /\ SmRecord("calc_saccade_error", a, calc_saccade_error(a, rng_state))

(* lines 468-469 *)
SmSaccadeErrorDisabled ==
    \E a \in SaccadeArgs :
        /\ ~a.use_saccade_error
        /\ SmRecord("calc_saccade_error", a, calc_saccade_error(a, rng_state))

(* lines 315-316 *)
SmSampleRecognized ==
    \E a \in SampleArgs :
        /\ a.recognized
        /\ SmRecord("sample_from_norm_distribution", a,
                    sample_from_norm_distribution(a, rng_state))

(* lines 317-318 *)
SmSampleNotRecognized ==
    \E a \in SampleArgs :
        /\ ~a.recognized
        /\ SmRecord("sample_from_norm_distribution", a,
                    sample_from_norm_distribution(a, rng_state))

NextSampling ==
    \/ SmSaccadeErrorEnabled
    \/ SmSaccadeErrorDisabled
    \/ SmSampleRecognized
    \/ SmSampleNotRecognized

SpecSampling == InitSampling /\ [][NextSampling]_vars

----------------------------------------------------------------------------

(* calc_acuity and get_attention_skewed, in exact fractions *)

MaxEccentricity == 6 \* largest eccentricity, in letter positions

One == <<1, 1>>

(* line 253: (1/35.555556)/(0.018*(eye_eccentricity*letPerDeg+1/0.64)) *)
calc_acuity(eye_eccentricity, letPerDeg) ==
    RDiv(RDiv(One, Rat(35555556, 1000000)),
         RMul(Rat(18, 1000),
              RAdd(RMul(eye_eccentricity, letPerDeg), RDiv(One, Rat(64, 100)))))

(* math.exp for an argument <= 0, on a grid: the argument is cut to a      *)
(* multiple of 1/4 and the value rounded to four decimals; from -10 on the *)
(* value is 0, as the float exp underflows to 0.0 for large negative       *)
(* arguments                                                               *)
ExpGrid ==
    <<10000, 7788, 6065, 4724, 3679, 2865, 2231, 1738, 1353, 1054,
      821, 639, 498, 388, 302, 235, 183, 143, 111, 87,
      67, 52, 41, 32, 25, 19, 15, 12, 9, 7,
      6, 4, 3, 3, 2, 2, 1, 1, 1, 1>>

math_exp(x) ==
    LET n == (4 * Abs(x[1])) \div x[2]
    IN  IF n < Len(ExpGrid) THEN Rat(ExpGrid[n + 1], 10000) ELSE <<0, 1>>

RSquare(a) == RMul(a, a)

RNegate(a) == <<-a[1], a[2]>>

RAbsolute(a) == <<Abs(a[1]), a[2]>>

(* the attention without the additive 0.25 *)
get_attention_skewed_no_floor(attentionWidth, attention_eccentricity, attention_skew) ==
    IF attention_eccentricity[1] < 0
      THEN RMul(RDiv(One, attentionWidth),
                math_exp(RDiv(RNegate(RSquare(RAbsolute(attention_eccentricity))),
                              RMul(<<2, 1>>, RSquare(RDiv(attentionWidth, attention_skew))))))
      ELSE RMul(RDiv(One, attentionWidth),
                math_exp(RDiv(RNegate(RSquare(RAbsolute(attention_eccentricity))),
                              RMul(<<2, 1>>, RSquare(attentionWidth)))))

(* lines 239-249 *)
get_attention_skewed(attentionWidth, attention_eccentricity, attention_skew) ==
    IF attention_eccentricity[1] < 0
      THEN RAdd(RMul(RDiv(One, attentionWidth),
                     math_exp(RDiv(RNegate(RSquare(RAbsolute(attention_eccentricity))),
                                   RMul(<<2, 1>>, RSquare(RDiv(attentionWidth, attention_skew)))))),
                Rat(25, 100))
      ELSE RAdd(RMul(RDiv(One, attentionWidth),
                     math_exp(RDiv(RNegate(RSquare(RAbsolute(attention_eccentricity))),
                                   RMul(<<2, 1>>, RSquare(attentionWidth))))),
                Rat(25, 100))

(* letters-per-degree values; with 25/16 and 25/8 every intermediate       *)
(* fraction of calc_acuity stays within the model checker's integers       *)
LetPerDegValues == {<<25, 16>>, <<25, 8>>}

AcuityArgs ==
    {[fn |-> "calc_acuity", eye_eccentricity |-> <<e, 1>>, letPerDeg |-> l] :
        e \in 0..MaxEccentricity, l \in LetPerDegValues}
    \cup {[fn |-> "calc_acuity", eye_eccentricity |-> <<0, 1>>, letPerDeg |-> <<3, 10>>]}

AttentionWidths == {<<1, 1>>, <<3, 1>>, <<5, 1>>}

AttentionSkews == {<<1, 1>>, <<2, 1>>, <<4, 1>>}

AttentionArgs ==
    {[fn |-> "get_attention_skewed", attentionWidth |-> w,
      attention_eccentricity |-> <<e, 1>>, attention_skew |-> s] :
        w \in AttentionWidths, e \in (-MaxEccentricity)..MaxEccentricity,
        s \in AttentionSkews}

InitField ==
    /\ pc = "fn_call"
    /\ call_args \in AcuityArgs \cup AttentionArgs
    /\ call_result = <<>>
    /\ NgIdle /\ MxIdle /\ SlIdle /\ FpIdle
    /\ ThIdle /\ SmIdle /\ WeIdle

FnReturn(value) ==
    /\ pc = "fn_call"
    /\ pc' = "fn_done"
    /\ call_result' = value
    /\ UNCHANGED <<call_args, ngVars, mxVars, slVars, fpVars, thVars, smVars, weVars>>

(* line 253 *)
FnCalcAcuity ==
    /\ pc = "fn_call"
    /\ call_args.fn = "calc_acuity"
    /\ FnReturn(calc_acuity(call_args.eye_eccentricity, call_args.letPerDeg))

(* lines 241-244 *)
FnAttentionLeft ==
    /\ pc = "fn_call"
    /\ call_args.fn = "get_attention_skewed"
    /\ call_args.attention_eccentricity[1] < 0
    /\ FnReturn(get_attention_skewed(call_args.attentionWidth,
                    call_args.attention_eccentricity, call_args.attention_skew))

(* lines 245-248 *)
FnAttentionRight ==
    /\ pc = "fn_call"
    /\ call_args.fn = "get_attention_skewed"
    /\ ~(call_args.attention_eccentricity[1] < 0)
    /\ FnReturn(get_attention_skewed(call_args.attentionWidth,
                    call_args.attention_eccentricity, call_args.attention_skew))

NextField ==
    \/ FnCalcAcuity
    \/ FnAttentionLeft
    \/ FnAttentionRight

SpecField == InitField /\ [][NextField]_vars

----------------------------------------------------------------------------

(* find_word_edges: p.finditer(stimulus) for p = \b\w+\b, one action per   *)
(* match.  Positions are 0-based; a match is [start, stop).                *)

MaxEdgeLen == 4      \* longest stimulus passed to find_word_edges

EdgeAlphabet == {"a", "1", "_", " ", ","}

(* \w under re.UNICODE: letters, digits and the underscore *)
RegexWordChars == {"a", "1", "_"}

IsWordCharAt(s, i) == i >= 0 /\ i < Len(s) /\ Ch(s, i) \in RegexWordChars

(* \b at position i: exactly one of the characters around i is a \w *)
IsWordBoundary(s, i) == IsWordCharAt(s, i - 1) # IsWordCharAt(s, i)

(* the stops at which \b\w+\b can end a match that starts at i *)
MatchStops(s, i) ==
    {j \in (i + 1)..Len(s) :
        /\ IsWordBoundary(s, i)
        /\ \A k \in i..(j - 1) : IsWordCharAt(s, k)
        /\ IsWordBoundary(s, j)}

(* the starts, from pos on, at which a match exists *)
MatchStarts(s, pos) == {i \in pos..Len(s) : MatchStops(s, i) # {}}

(* the value stored with m.end() in place of m.end()-1 *)
EdgeSpan_exclusive_end(start, stop) == <<start, stop>>

(* line 392: (m.start(), m.end()-1) *)
EdgeSpan(start, stop) == <<start, stop - 1>>

InitEdges ==
    /\ pc = "we_loop"
    /\ edges_stimulus \in SeqsUpTo(EdgeAlphabet, MaxEdgeLen)
    /\ match_pos = 0
    /\ word_edges = EmptyMap
    /\ NgIdle /\ MxIdle /\ SlIdle /\ FpIdle
    /\ ThIdle /\ SmIdle /\ FnIdle

(* lines 391-392: the next match, leftmost start and greedy \w+ *)
WeMatch ==
    /\ pc = "we_loop"
    /\ MatchStarts(edges_stimulus, match_pos) # {}
    /\ LET start == CHOOSE i \in MatchStarts(edges_stimulus, match_pos) :
                        \A k \in MatchStarts(edges_stimulus, match_pos) : i <= k
           stop  == CHOOSE j \in MatchStops(edges_stimulus, start) :
                        \A k \in MatchStops(edges_stimulus, start) : j >= k
       IN  /\ word_edges' = word_edges @@
                   (Cardinality(DOMAIN word_edges) :> EdgeSpan(start, stop))
           /\ match_pos' = stop
    /\ UNCHANGED <<pc, edges_stimulus, ngVars, mxVars, slVars, fpVars, thVars, smVars,
                   fnVars>>

(* line 394: the iterator is exhausted *)
WeReturn ==
    /\ pc = "we_loop"
    /\ MatchStarts(edges_stimulus, match_pos) = {}
    /\ pc' = "we_done"
    /\ UNCHANGED <<weVars, ngVars, mxVars, slVars, fpVars, thVars, smVars, fnVars>>

NextEdges ==
    \/ WeMatch
    \/ WeReturn

SpecEdges == InitEdges /\ [][NextEdges]_vars

----------------------------------------------------------------------------

(* get_ngram_edge_position_weight called on its own, with a two-letter or   *)
(* a one-letter unit                                                        *)

MaxWeightPos == 4     \* largest letter or space position of a weight call

WeightPositions == 0..MaxWeightPos

WeightArgs ==
    {[fn |-> "get_ngram_edge_position_weight", ngram |-> <<"a", "b">>,
      ngramLocations |-> <<f, s>>, stimulus_space_locations |-> spaces] :
        f \in WeightPositions, s \in WeightPositions,
        spaces \in SUBSET WeightPositions}
    \cup
    {[fn |-> "get_ngram_edge_position_weight", ngram |-> <<"a">>,
      ngramLocations |-> l, stimulus_space_locations |-> spaces] :
        l \in WeightPositions, spaces \in SUBSET WeightPositions}

InitWeight ==
    /\ pc = "wt_call"
    /\ call_args \in WeightArgs
    /\ call_result = <<>>
    /\ NgIdle /\ MxIdle /\ SlIdle /\ FpIdle
    /\ ThIdle /\ SmIdle /\ WeIdle

WtReturn ==
    /\ pc' = "wt_done"
    /\ call_result' = get_ngram_edge_position_weight(call_args.ngram,
                          call_args.ngramLocations,
                          call_args.stimulus_space_locations)
    /\ UNCHANGED <<call_args, ngVars, mxVars, slVars, fpVars, thVars, smVars, weVars>>

(* lines 22-34 *)
WtBigram ==
    /\ pc = "wt_call"
    /\ Len(call_args.ngram) = 2
    /\ WtReturn

(* lines 35-43 *)
WtMonogram ==
    /\ pc = "wt_call"
    /\ ~(Len(call_args.ngram) = 2)
    /\ WtReturn

NextWeight ==
    \/ WtBigram
    \/ WtMonogram

SpecWeight == InitWeight /\ [][NextWeight]_vars

----------------------------------------------------------------------------

(* get_threshold as the interpreter evaluates it: Python floats are binary *)
(* floating point, every operation rounded to the nearest representable    *)
(* number, ties to the even significand.  The significand has MantissaBits *)
(* bits here (53 in the interpreter).                                       *)

MantissaBits == 4            \* bits of the significand
MaxRoundedFrequency == 11    \* largest max_frequency of a rounded call
MaxRoundedThreshold == 7     \* largest max_threshold of a rounded call

RECURSIVE Pow2(_)
Pow2(k) == IF k = 0 THEN 1 ELSE 2 * Pow2(k - 1)

ExponentRange == (-12)..12

(* q / 2^e *)
Scaled(q, e) == IF e >= 0 THEN <<q[1], q[2] * Pow2(e)>> ELSE <<q[1] * Pow2(-e), q[2]>>

(* the exponent that puts the significand of q > 0 in [2^(bits-1), 2^bits) *)
FloatExponent(q) ==
    CHOOSE e \in ExponentRange :
        LET s == Scaled(q, e)
        IN  /\ Pow2(MantissaBits - 1) * s[2] <= s[1]
            /\ s[1] < Pow2(MantissaBits) * s[2]

(* round to nearest, ties to even, of q > 0 *)
RoundPositive(q) ==
    LET e    == FloatExponent(q)
        s    == Scaled(q, e)
        m0   == s[1] \div s[2]
        rest == s[1] % s[2]
        m    == IF 2 * rest > s[2] \/ (2 * rest = s[2] /\ m0 % 2 = 1)
                  THEN m0 + 1 ELSE m0
    IN  IF e >= 0 THEN Rat(m * Pow2(e), 1) ELSE Rat(m, Pow2(-e))

Float(q) ==
    IF q[1] = 0 THEN <<0, 1>>
    ELSE IF q[1] > 0 THEN RoundPositive(q)
    ELSE LET r == RoundPositive(<<-q[1], q[2]>>) IN <<-r[1], r[2]>>

(* lines 160-167, each operation of line 163 rounded *)
get_threshold_rounded(word, freq_dict, max_freq, p, max_thresh) ==
    IF word \in DOMAIN freq_dict
      THEN LET a == Float(RDiv(max_freq, p))
           IN  Float(RDiv(Float(RMul(max_thresh, Float(RSub(a, freq_dict[word])))), a))
      ELSE max_thresh

RoundedWord == "w1"

RoundedFreqPs == {<<1, 2>>, <<1, 1>>}

InitRounded ==
    /\ pc = "tr_call"
    /\ max_frequency \in {<<m, 1>> : m \in 1..MaxRoundedFrequency}
    /\ word_freq_dict \in
           {EmptyMap} \cup
           {(RoundedWord :> <<f, 1>>) : f \in 0..max_frequency[1]}
    /\ freq_p \in RoundedFreqPs
    /\ max_threshold \in {<<t, 1>> : t \in 0..MaxRoundedThreshold}
    /\ word_thresholds = EmptyMap
    /\ NgIdle /\ MxIdle /\ SlIdle /\ FpIdle
    /\ SmIdle /\ FnIdle /\ WeIdle

TrCall ==
    /\ pc' = "tr_done"
    /\ word_thresholds' =
           (RoundedWord :> get_threshold_rounded(RoundedWord, word_freq_dict,
                               max_frequency, freq_p, max_threshold))
    /\ UNCHANGED <<word_freq_dict, max_frequency, freq_p, max_threshold,
                   ngVars, mxVars, slVars, fpVars, smVars, fnVars, weVars>>

(* lines 162-163: the word has a frequency *)
TrKnownWord ==
    /\ pc = "tr_call"
    /\ RoundedWord \in DOMAIN word_freq_dict
    /\ TrCall

(* lines 164-165: KeyError, pass *)
TrUnknownWord ==
    /\ pc = "tr_call"
    /\ RoundedWord \notin DOMAIN word_freq_dict
    /\ TrCall

NextRounded ==
    \/ TrKnownWord
    \/ TrUnknownWord

SpecRounded == InitRounded /\ [][NextRounded]_vars

----------------------------------------------------------------------------

(* get_first_pass_fixations (evaluation.py), on the fixations of one        *)
(* simulation and text.  text_hist[k] is the k-th fixation in time order:   *)
(* its row label in the data frame is k - 1 and its fixation_counter is k,  *)
(* the rank that the slice [:fixation_counter - 1] of line 29 takes it to   *)
(* be.  "forward" stands for every saccade type other than "regression".    *)
(* A regression never lands on a word further right than the one it left,   *)
(* and the first fixation of a text is not one; with such labels the list   *)
(* first_pass_indices is never empty when line 38 reads its last element.   *)

MaxFixations == 4     \* longest fixation sequence of a text
MaxWordId == 2        \* largest word_id

SaccadeTypes == {"forward", "regression"}

Fixations == [word_id : 0..MaxWordId, saccade_type : SaccadeTypes]

TextHists ==
    {h \in SeqsUpTo(Fixations, MaxFixations) :
        \A k \in 1..Len(h) :
            h[k].saccade_type = "regression" =>
                k > 1 /\ h[k].word_id <= h[k - 1].word_id}

(* the keys of text_hist.groupby('word_id') *)
WordIds(h) == {h[k].word_id : k \in 1..Len(h)}

(* groupby iterates the keys in ascending order *)
NextGroup(h, done) ==
    CHOOSE w \in WordIds(h) \ done : \A v \in WordIds(h) \ done : w <= v

RowsOf(h, word) == {k \in 1..Len(h) : h[k].word_id = word}

(* the n-th row of fix_hist, n from 1 *)
NthRow(h, word, n) ==
    CHOOSE k \in RowsOf(h, word) :
        Cardinality({j \in RowsOf(h, word) : j < k}) = n - 1

(* fix_hist['fixation_counter'].tolist()[0] *)
first_fixation_counter(h, word) == NthRow(h, word, 1)

(* line 28 with the slice [:fixation_counter], the word's own row included *)
not_moved_beyond_inclusive(h, word) ==
    \A j \in 1..Min(first_fixation_counter(h, word), Len(h)) :
        word > h[j].word_id

(* lines 28-29: all(word > previous_word for previous_word in               *)
(* text_hist['word_id'].tolist()[:fixation_counter - 1])                    *)
not_moved_beyond(h, word) ==
    \A j \in 1..Min(first_fixation_counter(h, word) - 1, Len(h)) :
        word > h[j].word_id

InitFirstPass ==
    /\ pc = "fp_loop"
    /\ text_hist \in TextHists
    /\ groups_done = {}
    /\ fix_pos = 0
    /\ first_pass_indices = <<>>
    /\ NgIdle /\ MxIdle /\ SlIdle
    /\ ThIdle /\ SmIdle /\ FnIdle /\ WeIdle

FpFrame == UNCHANGED <<pc, text_hist, ngVars, mxVars, slVars, thVars, smVars,
                       fnVars, weVars>>

(* the word and row the loops of lines 26 and 31 are at *)
FpWord == NextGroup(text_hist, groups_done)
FpRow == NthRow(text_hist, FpWord, fix_pos + 1)

(* to the next row of fix_hist, or to the next group after its last row *)
FpAdvance ==
    IF fix_pos + 1 = Cardinality(RowsOf(text_hist, FpWord))
      THEN groups_done' = groups_done \cup {FpWord} /\ fix_pos' = 0
      ELSE groups_done' = groups_done /\ fix_pos' = fix_pos + 1

FpInGroup ==
    /\ pc = "fp_loop"
    /\ WordIds(text_hist) \ groups_done # {}

(* line 28 false: the eyes had moved beyond the word *)
FpSkipWord ==
    /\ FpInGroup
    /\ ~not_moved_beyond(text_hist, FpWord)
    /\ groups_done' = groups_done \cup {FpWord}
    /\ UNCHANGED <<fix_pos, first_pass_indices>>
    /\ FpFrame

(* line 33 false *)
FpRegression ==
    /\ FpInGroup
    /\ not_moved_beyond(text_hist, FpWord)
    /\ text_hist[FpRow].saccade_type = "regression"
    /\ FpAdvance
    /\ UNCHANGED first_pass_indices
    /\ FpFrame

(* lines 35-36 *)
FpAppendFirst ==
    /\ FpInGroup
    /\ not_moved_beyond(text_hist, FpWord)
    /\ text_hist[FpRow].saccade_type # "regression"
    /\ FpRow = first_fixation_counter(text_hist, FpWord)
    /\ first_pass_indices' = Append(first_pass_indices, FpRow - 1)
    /\ FpAdvance
    /\ FpFrame

(* lines 38-39 *)
FpAppendSequential ==
    /\ FpInGroup
    /\ not_moved_beyond(text_hist, FpWord)
    /\ text_hist[FpRow].saccade_type # "regression"
    /\ FpRow # first_fixation_counter(text_hist, FpWord)
    /\ first_pass_indices # <<>>
    /\ FpRow - 1 = first_pass_indices[Len(first_pass_indices)] + 1
    /\ first_pass_indices' = Append(first_pass_indices, FpRow - 1)
    /\ FpAdvance
    /\ FpFrame

(* line 38 false *)
FpNotSequential ==
    /\ FpInGroup
    /\ not_moved_beyond(text_hist, FpWord)
    /\ text_hist[FpRow].saccade_type # "regression"
    /\ FpRow # first_fixation_counter(text_hist, FpWord)
    /\ first_pass_indices # <<>>
    /\ FpRow - 1 # first_pass_indices[Len(first_pass_indices)] + 1
    /\ FpAdvance
    /\ UNCHANGED first_pass_indices
    /\ FpFrame

(* lines 41-44 *)
FpReturn ==
    /\ pc = "fp_loop"
    /\ WordIds(text_hist) \ groups_done = {}
    /\ pc' = "fp_done"
    /\ UNCHANGED <<fpVars, ngVars, mxVars, slVars, thVars, smVars, fnVars, weVars>>

NextFirstPass ==
    \/ FpSkipWord
    \/ FpRegression
    \/ FpAppendFirst
    \/ FpAppendSequential
    \/ FpNotSequential
    \/ FpReturn

SpecFirstPass == InitFirstPass /\ [][NextFirstPass]_vars

----------------------------------------------------------------------------

(* get_midword_position_for_surrounding_word.  The returned value is held   *)
(* as a sequence: <<>> is None and <<p>> is the position p.                 *)

MaxMidwordPos == 5     \* largest letter position of a word-edge map
MaxMidwordWords == 2   \* most words of a word-edge map

(* round(n / 2.0): Python 3 rounds a half to the even integer *)
round_half(n) ==
    LET floor == n \div 2
    IN  IF n % 2 = 0 THEN floor
        ELSE IF floor % 2 = 0 THEN floor
        ELSE floor + 1

(* lines 398-406 *)
get_midword_position_for_surrounding_word(word_position, edges, fixated_position_in_stimulus) ==
    LET word_position_in_stimulus == fixated_position_in_stimulus + word_position
    IN  IF word_position_in_stimulus \in DOMAIN edges
          THEN LET word_slice_length == edges[word_position_in_stimulus][2]
                                          - edges[word_position_in_stimulus][1] + 1
               IN  <<edges[word_position_in_stimulus][1]
                       + round_half(word_slice_length) - 1>>
          ELSE <<>>

MidwordSpans ==
    {<<start, end>> : start \in 0..MaxMidwordPos, end \in 0..MaxMidwordPos} \cap
    {span \in (0..MaxMidwordPos) \X (0..MaxMidwordPos) : span[1] <= span[2]}

(* word-edge maps as find_word_edges returns them: keys 0..k-1, spans in    *)
(* increasing order with at least one character between two words           *)
MidwordEdgeMaps ==
    UNION {{m \in [0..(k - 1) -> MidwordSpans] :
               \A i \in 0..(k - 2) : m[i][2] + 1 < m[i + 1][1]} :
           k \in 0..MaxMidwordWords}

MidwordArgs ==
    {[fn |-> "get_midword_position_for_surrounding_word", word_position |-> wp,
      word_edges |-> m, fixated_position_in_stimulus |-> fx] :
        wp \in (-1)..2, m \in MidwordEdgeMaps, fx \in 0..(MaxMidwordWords - 1)}

InitMidword ==
    /\ pc = "mw_call"
    /\ call_args \in MidwordArgs
    /\ call_result = <<>>
    /\ NgIdle /\ MxIdle /\ SlIdle /\ FpIdle
    /\ ThIdle /\ SmIdle /\ WeIdle

MwReturn ==
    /\ pc' = "mw_done"
    /\ call_result' = get_midword_position_for_surrounding_word(
                          call_args.word_position, call_args.word_edges,
                          call_args.fixated_position_in_stimulus)
    /\ UNCHANGED <<call_args, ngVars, mxVars, slVars, fpVars, thVars, smVars, weVars>>

(* lines 402-404: the surrounding word is in the stimulus *)
MwInStimulus ==
    /\ pc = "mw_call"
    /\ call_args.fixated_position_in_stimulus + call_args.word_position
           \in DOMAIN call_args.word_edges
    /\ MwReturn

(* line 402 false: None is returned *)
MwNotInStimulus ==
    /\ pc = "mw_call"
    /\ call_args.fixated_position_in_stimulus + call_args.word_position
           \notin DOMAIN call_args.word_edges
    /\ MwReturn

NextMidword ==
    \/ MwInStimulus
    \/ MwNotInStimulus

SpecMidword == InitMidword /\ [][NextMidword]_vars

----------------------------------------------------------------------------

Init == InitNgram \/ InitMatrix \/ InitSlot \/ InitThreshold \/ InitSampling
            \/ InitField \/ InitEdges \/ InitWeight \/ InitRounded
            \/ InitFirstPass \/ InitMidword

Next == NextNgram \/ NextMatrix \/ NextSlot \/ NextThreshold \/ NextSampling
            \/ NextField \/ NextEdges \/ NextWeight \/ NextRounded
            \/ NextFirstPass \/ NextMidword

Spec == Init /\ [][Next]_vars

SpecNgram == InitNgram /\ [][NextNgram]_vars

SpecMatrix == InitMatrix /\ [][NextMatrix]_vars

SpecSlot == InitSlot /\ [][NextSlot]_vars

----------------------------------------------------------------------------
(* Properties of build_word_inhibition_matrix *)

LexIndices == 0..(Len(lexicon) - 1)

Cell(i, j) == word_overlap_matrix[<<i, j>>]

LettersOf(w) == {w[k] : k \in 1..Len(w)}

BigramsOf(w) == {lexicon_word_bigrams[w][k] : k \in 1..Len(lexicon_word_bigrams[w])}

SharedCount(i, j) ==
    Cardinality({b \in BigramsOf(lexicon[i + 1]) : b \in BigramsOf(lexicon[j + 1])})
      + Cardinality({c \in LettersOf(lexicon[i + 1]) : c \in LettersOf(lexicon[j + 1])})

LengthDifference(i, j) ==
    IF Len(lexicon[i + 1]) >= Len(lexicon[j + 1])
      THEN Len(lexicon[i + 1]) - Len(lexicon[j + 1])
      ELSE Len(lexicon[j + 1]) - Len(lexicon[i + 1])

LongerLength(i, j) ==
    IF Len(lexicon[i + 1]) >= Len(lexicon[j + 1])
      THEN Len(lexicon[i + 1])
      ELSE Len(lexicon[j + 1])

(* |len1 - len2| >= constant * max(len1, len2) *)
FailsLengthGate(i, j) ==
    LengthDifference(i, j) * len_sim_constant[2]
        >= len_sim_constant[1] * LongerLength(i, j)

ClampedOverlap(i, j) ==
    IF SharedCount(i, j) - min_overlap > 0
      THEN SharedCount(i, j) - min_overlap
      ELSE 0

(* C1: the returned overlap matrix is symmetric, cell (i,j) = cell (j,i)   *)
(* for all i, j, and every diagonal cell (i,i) is 0, for any lexicon of    *)
(* size >= 1.                                                              *)
C1_SymmetricZeroDiagonal ==
    pc = "mx_done" =>
        /\ \A i, j \in LexIndices : Cell(i, j) = Cell(j, i)
        /\ \A i \in LexIndices : Cell(i, i) = 0

C1_Witness ==
    /\ pc = "mx_done"
    /\ Len(lexicon) = MaxLexicon
    /\ \E i, j \in LexIndices : i < j /\ Cell(i, j) > 0 /\ Cell(j, i) > 0

(* C2: for every pair of distinct lexicon words that passes the length     *)
(* gate the stored cell is max(0, |shared bigrams| + |shared letters|      *)
(* - min_overlap), in both (i,j) and (j,i).                                *)
C2_StoredOverlap ==
    pc = "mx_done" =>
        \A i, j \in LexIndices :
            (i # j /\ ~FailsLengthGate(i, j)) =>
                /\ Cell(i, j) = ClampedOverlap(i, j)
                /\ Cell(j, i) = ClampedOverlap(i, j)

C2_Witness ==
    /\ pc = "mx_done"
    /\ \E i, j \in LexIndices :
          /\ i # j /\ ~FailsLengthGate(i, j)
          /\ SharedCount(i, j) > min_overlap
          /\ Cell(i, j) = SharedCount(i, j) - min_overlap
    /\ \E i, j \in LexIndices :
          /\ i # j /\ ~FailsLengthGate(i, j)
          /\ SharedCount(i, j) > 0
          /\ SharedCount(i, j) <= min_overlap
          /\ Cell(i, j) = 0

(* C3: two lexicon words whose length difference is at least the           *)
(* similarity constant times the longer length have overlap cell 0,        *)
(* whatever they share.                                                    *)
C3_LengthGateZero ==
    pc = "mx_done" =>
        \A i, j \in LexIndices : FailsLengthGate(i, j) => Cell(i, j) = 0

C3_Witness ==
    /\ pc = "mx_done"
    /\ \E i, j \in LexIndices :
          /\ i # j
          /\ FailsLengthGate(i, j)
          /\ LettersOf(lexicon[i + 1]) \cap LettersOf(lexicon[j + 1]) # {}
          /\ Cell(i, j) = 0

----------------------------------------------------------------------------
(* Properties of define_slot_matching_order *)

RECURSIVE KeepInRange(_, _, _)
KeepInRange(offsets, k, acc) ==
    IF k > Len(offsets) THEN acc
    ELSE LET slot == fixated_position_stimulus + offsets[k]
         IN  KeepInRange(offsets, k + 1,
                 IF 0 <= slot /\ slot < n_words_in_stim
                   THEN Append(acc, slot)
                   ELSE acc)

(* C4: the order starts with the fixated index, has no duplicates and      *)
(* every entry lies in [0, n_slots).                                       *)
C4_SlotOrderWellFormed ==
    pc = "sl_done" =>
        /\ Len(order_match_check) >= 1
        /\ order_match_check[1] = fixated_position_stimulus
        /\ \A a, b \in 1..Len(order_match_check) :
               a # b => order_match_check[a] # order_match_check[b]
        /\ \A a \in 1..Len(order_match_check) :
               0 <= order_match_check[a] /\ order_match_check[a] < n_words_in_stim

C4_Witness ==
    /\ pc = "sl_done"
    /\ fixated_position_stimulus = 0
    /\ Len(order_match_check) = 4

(* C5 as stated: the fixated slot, then the slots at offsets                *)
(* -1, +1, -2, +2, -3, +3 in that order, out-of-range offsets omitted.     *)
C5_LeftFirstOrder ==
    pc = "sl_done" =>
        order_match_check =
            KeepInRange(<<-1, 1, -2, 2, -3, 3>>, 1, <<fixated_position_stimulus>>)

(* C5 amended: the fixated slot, then the slots at offsets                  *)
(* +1, -1, +2, -2, +3, -3 in that order, out-of-range offsets omitted and  *)
(* nothing put in their place.                                             *)
C5_RightFirstOrder ==
    pc = "sl_done" =>
        order_match_check =
            KeepInRange(<<1, -1, 2, -2, 3, -3>>, 1, <<fixated_position_stimulus>>)

C5_Witness ==
    /\ pc = "sl_done"
    /\ Len(order_match_check) = 5
    /\ order_match_check[2] = fixated_position_stimulus + 1
    /\ order_match_check[3] = fixated_position_stimulus - 1

----------------------------------------------------------------------------
(* Properties of string_to_ngrams_and_locations; positions index the       *)
(* padded stimulus the function scans.                                     *)

(* every recorded occurrence, paired with the bigram it is filed under *)
Occurrences ==
    UNION {{<<b, bigrams_to_locations[b][k]>> :
               k \in 1..Len(bigrams_to_locations[b])} :
           b \in DOMAIN bigrams_to_locations}

IsSpaceAt(p) == stimulus[p + 1] = " "

IsLetter(c) == c # " " /\ c # "_"

(* positions of the padded stimulus that hold a letter *)
LetterPositions ==
    {p \in 0..(Len(stimulus) - 1) : IsLetter(stimulus[p + 1])}

LowestOf(S) == CHOOSE p \in S : \A q \in S : p <= q

HighestOf(S) == CHOOSE p \in S : \A q \in S : p >= q

(* C6: every recorded occurrence (pos1, pos2, weight) has pos1 < pos2,     *)
(* neither position holds a space, no space lies between the two           *)
(* positions, and the gap pos2 - pos1 - 1 is within the configured limit.  *)
C6_OccurrencesWellFormed ==
    pc = "ng_done" =>
        \A e \in Occurrences :
            LET pos1 == e[2][1]
                pos2 == e[2][2]
            IN  /\ pos1 < pos2
                /\ ~IsSpaceAt(pos1)
                /\ ~IsSpaceAt(pos2)
                /\ \A p \in (pos1 + 1)..(pos2 - 1) : ~IsSpaceAt(p)
                /\ (gap = -1 \/ pos2 - pos1 - 1 <= gap)

(* the number of boundary-adjacent letters of an occurrence: the character *)
(* just left of the first letter, and just right of the second, is a space *)
BoundaryAdjacent(pos1, pos2) ==
    (IF IsSpaceAt(pos1 - 1) THEN 1 ELSE 0) + (IF IsSpaceAt(pos2 + 1) THEN 1 ELSE 0)

(* C7: a two-letter bigram occurrence weighs 2.0 if both letters are       *)
(* boundary-adjacent, 1.0 if exactly one is, 0.5 otherwise (weights        *)
(* doubled: 4, 2, 1).                                                      *)
C7_EdgeWeightByBoundary ==
    pc = "ng_done" =>
        \A e \in Occurrences :
            (IsLetter(e[1][1]) /\ IsLetter(e[1][2])) =>
                LET n == BoundaryAdjacent(e[2][1], e[2][2])
                IN  e[2][3] = (IF n = 2 THEN 4 ELSE IF n = 1 THEN 2 ELSE 1)

(* C8: for "cat dog" with gap limit 3 the output holds only within-word    *)
(* pairs plus the boundary bigrams at the start of "cat" and the end of    *)
(* "dog"; no bigram contains or spans the space.                           *)
C8_CatDogScenario ==
    (pc = "ng_done" /\ gap = 3
       /\ stimulus = <<"_", "c", "a", "t", " ", "d", "o", "g", "_">>) =>
        /\ \A e \in Occurrences :
              LET pos1 == e[2][1]
                  pos2 == e[2][2]
              IN  /\ \/ (1 <= pos1 /\ pos1 < pos2 /\ pos2 <= 3)
                     \/ (5 <= pos1 /\ pos1 < pos2 /\ pos2 <= 7)
                     \/ (e[1] = <<"_", "c">> /\ pos1 = 0 /\ pos2 = 1)
                     \/ (e[1] = <<"g", "_">> /\ pos1 = 7 /\ pos2 = 8)
                  /\ e[1][1] # " " /\ e[1][2] # " "
                  /\ ~(pos1 <= 4 /\ 4 <= pos2)
        /\ \A k \in 1..Len(all_bigrams) :
              all_bigrams[k][1] # " " /\ all_bigrams[k][2] # " "

(* C9: neither the list of distinct bigrams nor the occurrence mapping     *)
(* contains the bigram made of the sentinel twice.                         *)
C9_NoSentinelPair ==
    pc = "ng_done" =>
        /\ \A k \in 1..Len(all_bigrams) : all_bigrams[k] # <<"_", "_">>
        /\ <<"_", "_">> \notin DOMAIN bigrams_to_locations

(* C10: with a bounded gap and a stimulus holding at least one word, the   *)
(* output contains the sentinel paired with the first letter of the first  *)
(* word (unless suffix-context is set) and the last letter of the last     *)
(* word paired with the sentinel.                                          *)
C10_BoundaryBigramsPresent ==
    (pc = "ng_done" /\ gap # -1 /\ LetterPositions # {}) =>
        LET start == stimulus[LowestOf(LetterPositions) + 1]
            end   == stimulus[HighestOf(LetterPositions) + 1]
        IN  /\ is_suffix \/ <<"_", start>> \in DOMAIN bigrams_to_locations
            /\ is_suffix \/ \E k \in 1..Len(all_bigrams) : all_bigrams[k] = <<"_", start>>
            /\ <<end, "_">> \in DOMAIN bigrams_to_locations
            /\ \E k \in 1..Len(all_bigrams) : all_bigrams[k] = <<end, "_">>

(* the start of the first word of the padded stimulus *)
FirstWordStart == LowestOf(LetterPositions)

(* C11: with the suffix-context flag set, the output holds no word-initial *)
(* boundary bigram, the leading sentinel paired with the first letter of   *)
(* the word start, for every stimulus and every gap setting.               *)
C11_SuffixNoInitialBoundary ==
    (pc = "ng_done" /\ is_suffix /\ LetterPositions # {}) =>
        /\ <<"_", stimulus[FirstWordStart + 1]>> \notin DOMAIN bigrams_to_locations
        /\ \A k \in 1..Len(all_bigrams) :
               all_bigrams[k] # <<"_", stimulus[FirstWordStart + 1]>>

----------------------------------------------------------------------------
(* Further properties of build_word_inhibition_matrix *)

(* C15: the construction never completes while a lexicon entry lacks its   *)
(* precomputed bigram set.                                                 *)
C15_MissingEntryAborts ==
    pc = "mx_done" =>
        \A i \in LexIndices : lexicon[i + 1] \in DOMAIN lexicon_word_bigrams

CatCotDog == <<<<"c", "a", "t">>, <<"c", "o", "t">>, <<"d", "o", "g">>>>

CatCotDogScenario ==
    /\ pc = "mx_done"
    /\ lexicon = CatCotDog
    /\ min_overlap = 1
    /\ \A i \in LexIndices : lexicon[i + 1] \in DOMAIN lexicon_word_bigrams
    /\ \A i, j \in LexIndices : ~FailsLengthGate(i, j)

(* C16: for the lexicon ["cat", "cot", "dog"] with min_overlap = 1 and the *)
(* extractor's bigram sets, overlap(cat,cot) > 0, overlap(cat,dog) = 0 and *)
(* the matrix is symmetric.                                                *)
C16_CatCotDogMatrix ==
    CatCotDogScenario =>
        /\ Cell(0, 1) > 0
        /\ Cell(0, 2) = 0
        /\ \A i, j \in LexIndices : Cell(i, j) = Cell(j, i)

C16_Witness ==
    /\ CatCotDogScenario
    /\ Cell(1, 0) > 0
    /\ Cell(2, 0) = 0
    /\ Cell(1, 2) > 0

----------------------------------------------------------------------------
(* Properties of get_threshold; thresholds and frequencies are compared    *)
(* as exact fractions                                                      *)

LessQ(a, b) == a[1] * b[2] < b[1] * a[2]

SameQ(a, b) == a[1] * b[2] = b[1] * a[2]

Computed == DOMAIN word_thresholds

KnownComputed == Computed \cap DOMAIN word_freq_dict

(* C12: the threshold is non-increasing in the word's frequency, the other *)
(* parameters fixed, and is exactly max_threshold for a word without an    *)
(* entry in the frequency table.                                           *)
C12_ThresholdMonotone ==
    /\ \A w1, w2 \in KnownComputed :
           ~LessQ(word_freq_dict[w2], word_freq_dict[w1]) =>
               ~LessQ(word_thresholds[w1], word_thresholds[w2])
    /\ \A w \in Computed \ DOMAIN word_freq_dict :
           word_thresholds[w] = max_threshold

C12_Witness ==
    /\ \E w1, w2 \in KnownComputed :
           /\ LessQ(word_freq_dict[w1], word_freq_dict[w2])
           /\ LessQ(word_thresholds[w2], word_thresholds[w1])
    /\ \E w \in Computed \ DOMAIN word_freq_dict :
           word_thresholds[w] = max_threshold

----------------------------------------------------------------------------
(* Properties of calc_saccade_error and sample_from_norm_distribution *)

CallIndices == 1..Len(calls)

SameNumbers(a, b) ==
    /\ a.saccade_distance = b.saccade_distance
    /\ a.optimal_distance = b.optimal_distance
    /\ a.saccErr_scaler = b.saccErr_scaler
    /\ a.saccErr_sigma = b.saccErr_sigma
    /\ a.saccErr_sigma_scaler = b.saccErr_sigma_scaler

C17_SameArgumentsSameValue ==
    \A j, k \in CallIndices :
        (calls[j].fn = calls[k].fn /\ calls[j].args = calls[k].args)
            => calls[j].result = calls[k].result

----------------------------------------------------------------------------
(* Properties of calc_acuity and get_attention_skewed *)

(* C18: calc_acuity at eye eccentricity 0 is exactly 1, for every          *)
(* letters-per-degree value.                                               *)
C18_AcuityAtZeroIsOne ==
    (pc = "fn_done" /\ call_args.fn = "calc_acuity"
       /\ call_args.eye_eccentricity[1] = 0) =>
        call_result[1] = call_result[2]

(* C19: for every attention eccentricity and every positive width and     *)
(* skew, get_attention_skewed returns a value >= 0.25.                     *)
C19_AttentionFloor ==
    (pc = "fn_done" /\ call_args.fn = "get_attention_skewed") =>
        4 * call_result[1] >= call_result[2]

C19_Witness ==
    /\ pc = "fn_done"
    /\ call_args.fn = "get_attention_skewed"
    /\ call_args.attention_eccentricity[1] < 0
    /\ call_args.attention_skew[1] > 1
    /\ 4 * call_result[1] > call_result[2]
    /\ 2 * call_result[1] < call_result[2]

----------------------------------------------------------------------------
(* Properties of find_word_edges *)

EdgePositions == 0..(Len(edges_stimulus) - 1)

InClass(class, p) == p \in EdgePositions /\ edges_stimulus[p + 1] \in class

(* the first positions of the maximal runs of characters of a class *)
RunStarts(class) == {p \in EdgePositions : InClass(class, p) /\ ~InClass(class, p - 1)}

(* the last position of the run that holds p *)
RunEnd(class, p) ==
    CHOOSE q \in EdgePositions :
        /\ q >= p
        /\ \A r \in p..q : InClass(class, r)
        /\ ~InClass(class, q + 1)

(* the mapping is keyed 0..k-1 by the k maximal runs of the class, left to *)
(* right, each value the inclusive span of its run                         *)
EdgesAreRunsOf(class) ==
    /\ DOMAIN word_edges = 0..(Cardinality(RunStarts(class)) - 1)
    /\ \A i \in DOMAIN word_edges :
           /\ word_edges[i][1] \in RunStarts(class)
           /\ word_edges[i][2] = RunEnd(class, word_edges[i][1])
           /\ word_edges[i][1] <= word_edges[i][2]
           /\ \A p \in word_edges[i][1]..word_edges[i][2] : InClass(class, p)
    /\ \A i, j \in DOMAIN word_edges :
           i < j => word_edges[i][2] < word_edges[j][1]
    /\ \A p \in EdgePositions :
           InClass(class, p) =>
               Cardinality({i \in DOMAIN word_edges :
                               word_edges[i][1] <= p /\ p <= word_edges[i][2]}) = 1

(* C20 as stated: the keys are 0..k-1 over the k maximal alphanumeric runs *)
(* (letters and digits), each value the inclusive span of its run; spans   *)
(* are disjoint and increasing and cover exactly the run characters.       *)
C20_EdgesAreAlphanumericRuns ==
    pc = "we_done" => EdgesAreRunsOf({"a", "1"})

(* C20 amended: the same over the maximal runs of regex word characters,   *)
(* letters, digits and the underscore.                                     *)
C20_EdgesAreWordCharRuns ==
    pc = "we_done" => EdgesAreRunsOf({"a", "1", "_"})

C20_Witness ==
    /\ pc = "we_done"
    /\ Cardinality(DOMAIN word_edges) = 2
    /\ word_edges[0][2] > word_edges[0][1]
    /\ edges_stimulus[word_edges[0][2] + 1] = "_"

----------------------------------------------------------------------------
(* Properties of get_ngram_edge_position_weight called on its own *)

(* 0.5, 1.0 and 2.0 in the doubled representation *)
DoubledEdgeWeights == {1, 2, 4}

(* C21: every weight returned for a two-letter or a one-letter unit, any    *)
(* positions and any set of space positions, is one of 0.5, 1.0 or 2.0,     *)
(* hence never above 2.0.                                                   *)
C21_WeightInThreeValues ==
    pc = "wt_done" =>
        /\ call_result \in DoubledEdgeWeights
        /\ call_result <= 4

C21_Witness ==
    /\ pc = "wt_done"
    /\ Len(call_args.ngram) = 1
    /\ call_args.ngramLocations - 1 \in call_args.stimulus_space_locations
    /\ call_args.ngramLocations + 1 \in call_args.stimulus_space_locations
    /\ call_result = 4

----------------------------------------------------------------------------
(* Properties of get_threshold in floating point *)

(* C22: for 0 <= f <= max_frequency, 0 < freq_p <= 1 and max_threshold >= 0 *)
(* the returned threshold lies in [0, max_threshold]; it never exceeds      *)
(* max_threshold.                                                           *)
C22_ThresholdInRange ==
    (/\ pc = "tr_done"
     /\ RoundedWord \in DOMAIN word_freq_dict
     /\ word_freq_dict[RoundedWord][1] >= 0
     /\ word_freq_dict[RoundedWord][1] * max_frequency[2]
            <= max_frequency[1] * word_freq_dict[RoundedWord][2]
     /\ freq_p[1] > 0 /\ freq_p[1] <= freq_p[2]
     /\ max_threshold[1] >= 0) =>
        /\ word_thresholds[RoundedWord][1] >= 0
        /\ word_thresholds[RoundedWord][1] * max_threshold[2]
               <= max_threshold[1] * word_thresholds[RoundedWord][2]

----------------------------------------------------------------------------
(* Properties of get_first_pass_fixations *)

FixationRanks == 1..Len(text_hist)

IsFirstFixationOnWord(k) ==
    \A j \in 1..(k - 1) : text_hist[j].word_id # text_hist[k].word_id

NotARegression(k) == text_hist[k].saccade_type # "regression"

NoWordBeyondEarlier(k) ==
    \A j \in 1..(k - 1) : text_hist[j].word_id <= text_hist[k].word_id

(* the k-th fixation belongs to the first pass of its word *)
RECURSIVE IsFirstPass(_)
IsFirstPass(k) ==
    IF IsFirstFixationOnWord(k)
      THEN NotARegression(k) /\ NoWordBeyondEarlier(k)
      ELSE /\ NotARegression(k)
           /\ text_hist[k - 1].word_id = text_hist[k].word_id
           /\ IsFirstPass(k - 1)

SelectedRows == {first_pass_indices[n] : n \in 1..Len(first_pass_indices)}

----------------------------------------------------------------------------
(* The list of distinct bigrams against the occurrence mapping *)

ListedBigrams == {all_bigrams[k] : k \in 1..Len(all_bigrams)}

PositionPair(occurrence) == <<occurrence[1], occurrence[2]>>

(* C24: the list of distinct bigrams has no duplicates and is exactly the   *)
(* key set of the occurrence mapping; every key maps to a non-empty list,   *)
(* and no (pos1, pos2) pair appears twice in a key's list.                  *)
C24_ListIsKeySet ==
    pc = "ng_done" =>
        /\ \A i, j \in 1..Len(all_bigrams) :
               i # j => all_bigrams[i] # all_bigrams[j]
        /\ ListedBigrams = DOMAIN bigrams_to_locations
        /\ \A b \in DOMAIN bigrams_to_locations :
               /\ Len(bigrams_to_locations[b]) >= 1
               /\ \A i, j \in 1..Len(bigrams_to_locations[b]) :
                      i # j => PositionPair(bigrams_to_locations[b][i])
                                 # PositionPair(bigrams_to_locations[b][j])

C24_Witness ==
    /\ pc = "ng_done"
    /\ gap # -1
    /\ Len(all_bigrams) >= 3
    /\ \E b \in DOMAIN bigrams_to_locations :
           Len(bigrams_to_locations[b]) >= 2

----------------------------------------------------------------------------
(* Properties of get_midword_position_for_surrounding_word *)

TargetSlot == call_args.fixated_position_in_stimulus + call_args.word_position

(* C25: None is returned exactly when the target slot is not in the map;    *)
(* otherwise the returned position p lies in the word's span,               *)
(* start <= p <= end, for every word length >= 1.                           *)
C25_MidwordInsideSpan ==
    pc = "mw_done" =>
        /\ (call_result = <<>>) <=> (TargetSlot \notin DOMAIN call_args.word_edges)
        /\ TargetSlot \in DOMAIN call_args.word_edges =>
               /\ Len(call_result) = 1
               /\ call_args.word_edges[TargetSlot][1] <= call_result[1]
               /\ call_result[1] <= call_args.word_edges[TargetSlot][2]

----------------------------------------------------------------------------
(* The generator around a disabled calc_saccade_error *)

(* the generator's state when the k-th recorded call returned *)
RngAfterCall(k) == IF k = Len(calls) THEN rng_state ELSE calls[k + 1].rng_before

(* C26: a call of calc_saccade_error with use_saccade_error false leaves    *)
(* the generator's state as it found it, so the draws that follow are the   *)
(* same with or without the call.                                           *)
C26_DisabledCallKeepsGenerator ==
    \A k \in 1..Len(calls) :
        (/\ calls[k].fn = "calc_saccade_error"
         /\ ~calls[k].args.use_saccade_error) =>
            RngAfterCall(k) = calls[k].rng_before

====
